---- MODULE Spec2Model ----
(***************************************************************************)
(* The job status state machine and progress simulator of yt-downloader,   *)
(* in its two variants:                                                    *)
(*   "simple"  - src/src/App.tsx        (timers only)                      *)
(*   "persist" - src/unnamed/part_000   (timers + document store + auth)   *)
(* One behaviour runs one variant, chosen in Init.  Each action is one     *)
(* run-to-completion step of the JavaScript event loop: the synchronous    *)
(* part of an event handler, the continuation of an await, a timer         *)
(* callback, or a listener callback.                                       *)
(***************************************************************************)
EXTENDS Integers, Sequences, FiniteSets, TLC

VARIABLES
    variant,            \* "simple" | "persist"
    url,                \* useState url: a sequence of one-character strings
    selectedFormat,     \* useState selectedFormat: "" or a catalog id
    downloadProgress,   \* useState downloadProgress, in units of 1/Scale percent
    status,             \* useState status
    isAnalyzing,        \* useState isAnalyzing      (simple)
    isDownloading,      \* useState isDownloading    (simple)
    analysisTimers,     \* pending setTimeout callbacks          (simple)
    progressTimers,     \* running setInterval timers            (simple)
    jobId,              \* useState jobId: NoJob or a job number (persist)
    currentDownloadUrl, \* useState currentDownloadUrl           (persist)
    errorMessage,       \* useState errorMessage                 (persist)
    userId,             \* useState userId                       (persist)
    isAuthReady,        \* useState isAuthReady                  (persist)
    authPc,             \* position of authenticate()            (persist)
    docs,               \* the document store: job number -> record
    listening,          \* the jobs whose record has a live onSnapshot listener
    queue,              \* snapshots raised for a listener, not yet delivered
    anPc,               \* per job: position of handleAnalyze and its timeout
    dl,                 \* per slot: one handleDownload call and its interval
    acks,               \* awaited setDoc calls, in the order they were issued
    nextJob,            \* number of the next generated job identifier
    faults,             \* rejected writes and listener errors so far
    mounted,            \* the component is mounted: its state is displayed
    ev                  \* name of the handler or callback of the last step

vars == <<variant, url, selectedFormat, downloadProgress, status, isAnalyzing,
          isDownloading, analysisTimers, progressTimers, jobId,
          currentDownloadUrl, errorMessage, userId, isAuthReady, authPc,
          docs, listening, queue, anPc, dl, acks, nextJob, faults,
          mounted, ev>>

simpleVars == <<isAnalyzing, isDownloading, analysisTimers, progressTimers>>

persistVars == <<jobId, currentDownloadUrl, errorMessage, userId, isAuthReady,
                 authPc, docs, listening, queue, anPc, dl, acks, nextJob,
                 faults>>

----------------------------------------------------------------------------
(* Bounds of the model *)

\* job identifiers that handleAnalyze may generate in one behaviour
MaxJobs == 2

\* handleDownload calls that start a download in one behaviour, each with
\* its own slot for the call and its interval timer
MaxDownloads == 2

\* snapshots raised for the listener and not yet delivered
MaxQueue == 1

\* faults of the store in one behaviour: rejected writes and listener errors
MaxFaults == 1

\* progress is kept in units of 1/Scale percent (Scale = 2: half percents)
Scale == 2

\* how many entries of the catalog the user picks from
NumPick == 2

(* Program constants *)

\* Math.random() * 15: the increment of one tick is in [0, 15)
MaxStep == 15

\* the threshold of completion, in percent
Full == 100

Hundred == Full * Scale

\* the increments one tick draws from: the least and the greatest value of
\* [0, MaxStep) that the resolution represents
Steps == {0, MaxStep * Scale - 1}

\* Math.round of a progress value, as a progress value (x is non-negative)
Round(x) == ((2 * x + Scale) \div (2 * Scale)) * Scale

----------------------------------------------------------------------------
(* Values *)

Null == "null"
NoJob == 0
JobIds == 1..MaxJobs
Slots == 1..MaxDownloads

Statuses == {"idle", "analyzing", "ready", "downloading", "complete", "error"}

downloadOptions == <<"mp3-128", "mp3-320", "mp4-360", "mp4-720", "mp4-1080">>

CatalogIds == {downloadOptions[i] : i \in 1..Len(downloadOptions)}

PickIds == {downloadOptions[i] : i \in 1..NumPick}

InvalidUrlMsg == "Please enter a valid YouTube URL."
NotAuthMsg == "User not authenticated. Please wait or refresh."
AuthFailedMsg == "Authentication failed. Please try again."
ListenFailedMsg == "Failed to get real-time updates for the download."
AnalysisFailedMsg == "Failed to initiate analysis. Please try again."
DownloadFailedMsg == "Failed to start download. Please try again."
DownloadFailedDocMsg == "Failed to start download."

TheUser == "uid1"

\* the strings the user types
EmptyUrl == <<>>
NotAUrl == <<"n", "o", "t", " ", "a", " ", "u", "r", "l">>
YoutuBeUrl == <<"h", "t", "t", "p", "s", ":", "/", "/", "y", "o", "u", "t", "u",
                ".", "b", "e", "/", "a", "b", "c", "1", "2", "3">>

Urls == {NotAUrl, YoutuBeUrl}

----------------------------------------------------------------------------
(* The URL-shape check *)

\* the line separator U+2028 and the paragraph separator U+2029, each one
\* character of a string
LS == "U+2028"
PS == "U+2029"

\* the characters the '.' of a regular expression does not match
LineTerminators == {"\n", "\r", LS, PS}

\* the characters of p stand in s from position i on
HasAt(s, i, p) ==
    /\ i + Len(p) - 1 <= Len(s)
    /\ \A k \in 1..Len(p) : s[i + k - 1] = p[k]

Http == <<"h", "t", "t", "p", ":", "/", "/">>
Https == <<"h", "t", "t", "p", "s", ":", "/", "/">>
Www == <<"w", "w", "w", ".">>
YoutubeCom == <<"y", "o", "u", "t", "u", "b", "e", ".", "c", "o", "m">>
YoutuBe == <<"y", "o", "u", "t", "u", ".", "b", "e">>

\* positions after an optional group that matches p at i
Optional(s, i, p) == {i} \cup (IF HasAt(s, i, p) THEN {i + Len(p)} ELSE {})

\* positions after (youtube\.com|youtu\.be) at i
Host(s, i) ==
    (IF HasAt(s, i, YoutubeCom) THEN {i + Len(YoutubeCom)} ELSE {})
    \cup (IF HasAt(s, i, YoutuBe) THEN {i + Len(YoutuBe)} ELSE {})

\* \/.+ as it would be with the dotAll flag: the '.' matches every character
SlashAny_DotAll(s, i) ==
    /\ i + 1 <= Len(s)
    /\ s[i] = "/"

\* \/.+ at i: a slash and at least one character that is no line terminator
SlashAny(s, i) ==
    /\ i + 1 <= Len(s)
    /\ s[i] = "/"
    /\ s[i + 1] \notin LineTerminators

\* /^(https?\:\/\/)?(www\.)?(youtube\.com|youtu\.be)\/.+/.test(url)
isValidYouTubeUrlS(u) ==
    \E i \in Optional(u, 1, Http) \cup Optional(u, 1, Https) :
        \E j \in Optional(u, i, Www) :
            \E k \in Host(u, j) : SlashAny(u, k)

\* /^(https?:\/\/)?(www\.)?(youtube\.com|youtu\.be)\/.+/.test(inputUrl)
isValidYouTubeUrlP(inputUrl) ==
    \E i \in Optional(inputUrl, 1, Http) \cup Optional(inputUrl, 1, Https) :
        \E j \in Optional(inputUrl, i, Www) :
            \E k \in Host(inputUrl, j) : SlashAny(inputUrl, k)

----------------------------------------------------------------------------
(* Records of the store *)

NoUrl == [job |-> NoJob, fmt |-> ""]

\* `https://example.com/downloads/${jobId}_${selectedFormat}.mp4`
mockDownloadUrl(j, f) == [job |-> j, fmt |-> f]

NoDoc == [exists |-> FALSE, url |-> EmptyUrl, selectedFormatId |-> "",
          status |-> "pending", progress |-> 0, downloadUrl |-> NoUrl,
          errorMessage |-> Null, userId |-> Null]

\* a snapshot of the record of job j: the record it is of and what the
\* listener reads of it
Snap(j, d) == [job |-> j, status |-> d.status, progress |-> d.progress,
               downloadUrl |-> d.downloadUrl, errorMessage |-> d.errorMessage]

NoTask == [pc |-> "free", job |-> NoJob, fmt |-> "", cur |-> 0]

\* a slot whose call has ended: its interval is cleared, or its catch has run
OverTask == [pc |-> "over", job |-> NoJob, fmt |-> "", cur |-> 0]

\* the value a state setter leaves: a setter called by a callback of an
\* unmounted component changes nothing
Shown(new, old) == IF mounted THEN new ELSE old

----------------------------------------------------------------------------
(* Initial state: the component as constructed by its useState calls *)

Init ==
    /\ variant \in {"simple", "persist"}
    /\ url = EmptyUrl
    /\ selectedFormat = ""
    /\ downloadProgress = 0
    /\ status = "idle"
    /\ isAnalyzing = FALSE
    /\ isDownloading = FALSE
    /\ analysisTimers = 0
    /\ progressTimers = 0
    /\ jobId = NoJob
    /\ currentDownloadUrl = NoUrl
    /\ errorMessage = Null
    /\ userId = Null
    /\ isAuthReady = FALSE
    /\ authPc = "signingIn"
    /\ docs = [j \in JobIds |-> NoDoc]
    /\ listening = {}
    /\ queue = <<>>
    /\ anPc = [j \in JobIds |-> "none"]
    /\ dl = [s \in Slots |-> NoTask]
    /\ acks = <<>>
    /\ nextJob = 1
    /\ faults = 0
    /\ mounted = TRUE
    /\ ev = "mount"

----------------------------------------------------------------------------
(* The simple variant *)

\* setUrl as it would be with the error-clearing onChange of the
\* persistence-backed variant: a valid-shaped URL typed in error gives idle
setUrlS_ClearsError(u) ==
    /\ variant = "simple"
    /\ mounted
    /\ url' = u
    /\ status' = IF status = "error" /\ isValidYouTubeUrlS(u)
                 THEN "idle" ELSE status
    /\ ev' = "setUrl"
    /\ UNCHANGED <<variant, mounted, selectedFormat, downloadProgress>>
    /\ UNCHANGED simpleVars
    /\ UNCHANGED persistVars

\* onChange of the URL input
setUrlS(u) ==
    /\ variant = "simple"
    /\ mounted
    /\ url' = u
    /\ ev' = "setUrl"
    /\ UNCHANGED <<variant, mounted, selectedFormat, downloadProgress, status>>
    /\ UNCHANGED simpleVars
    /\ UNCHANGED persistVars

\* the onChange of a format radio input as it would be if it also called
\* setDownloadProgress(0)
setSelectedFormatS_ZeroesProgress(f) ==
    /\ variant = "simple"
    /\ mounted
    /\ status \in {"ready", "downloading", "complete"}
    /\ selectedFormat' = f
    /\ downloadProgress' = 0
    /\ ev' = "setSelectedFormat"
    /\ UNCHANGED <<variant, mounted, url, status>>
    /\ UNCHANGED simpleVars
    /\ UNCHANGED persistVars

\* the format radio inputs are rendered in ready, downloading and complete
setSelectedFormatS(f) ==
    /\ variant = "simple"
    /\ mounted
    /\ status \in {"ready", "downloading", "complete"}
    /\ selectedFormat' = f
    /\ ev' = "setSelectedFormat"
    /\ UNCHANGED <<variant, mounted, url, downloadProgress, status>>
    /\ UNCHANGED simpleVars
    /\ UNCHANGED persistVars

\* handleAnalyze as it would be without the return that follows
\* setStatus('error'): the analysis is started for every URL
handleAnalyzeS_NoReturn ==
    /\ variant = "simple"
    /\ isAnalyzing' = TRUE
    /\ status' = "analyzing"
    /\ analysisTimers' = analysisTimers + 1
    /\ ev' = "handleAnalyze"
    /\ UNCHANGED <<variant, mounted, url, selectedFormat, downloadProgress,
                   isDownloading, progressTimers>>
    /\ UNCHANGED persistVars

\* the body of handleAnalyze
handleAnalyzeS ==
    /\ variant = "simple"
    /\ IF ~isValidYouTubeUrlS(url)
       THEN /\ status' = "error"
            /\ UNCHANGED <<isAnalyzing, analysisTimers>>
       ELSE /\ isAnalyzing' = TRUE
            /\ status' = "analyzing"
            /\ analysisTimers' = analysisTimers + 1
    /\ ev' = "handleAnalyze"
    /\ UNCHANGED <<variant, mounted, url, selectedFormat, downloadProgress,
                   isDownloading, progressTimers>>
    /\ UNCHANGED persistVars

\* disabled={!url || isAnalyzing || status === 'downloading'}; an unmounted
\* component has no button
analyzeDisabledS ==
    ~mounted \/ url = EmptyUrl \/ isAnalyzing \/ status = "downloading"

\* a click on the Analyze button
AnalyzeButtonS ==
    /\ ~analyzeDisabledS
    /\ handleAnalyzeS

\* the setTimeout callback as it would be without setIsAnalyzing(false)
analysisTimeoutS_KeepsFlag ==
    /\ variant = "simple"
    /\ analysisTimers > 0
    /\ analysisTimers' = analysisTimers - 1
    /\ status' = Shown("ready", status)
    /\ ev' = "analysisTimeout"
    /\ UNCHANGED <<variant, mounted, url, selectedFormat, downloadProgress,
                   isAnalyzing, isDownloading, progressTimers>>
    /\ UNCHANGED persistVars

\* the setTimeout callback of handleAnalyze
analysisTimeoutS ==
    /\ variant = "simple"
    /\ analysisTimers > 0
    /\ analysisTimers' = analysisTimers - 1
    /\ isAnalyzing' = Shown(FALSE, isAnalyzing)
    /\ status' = Shown("ready", status)
    /\ ev' = "analysisTimeout"
    /\ UNCHANGED <<variant, mounted, url, selectedFormat, downloadProgress,
                   isDownloading, progressTimers>>
    /\ UNCHANGED persistVars

\* handleDownload as it would be without setDownloadProgress(0)
handleDownloadS_KeepsProgress ==
    /\ variant = "simple"
    /\ IF selectedFormat = ""
       THEN UNCHANGED <<isDownloading, status, progressTimers>>
       ELSE /\ isDownloading' = TRUE
            /\ status' = "downloading"
            /\ progressTimers' = progressTimers + 1
    /\ ev' = "handleDownload"
    /\ UNCHANGED <<variant, mounted, url, selectedFormat, downloadProgress,
                   isAnalyzing, analysisTimers>>
    /\ UNCHANGED persistVars

\* handleDownload as it would be without if (!selectedFormat) return
handleDownloadS_NoGuard ==
    /\ variant = "simple"
    /\ isDownloading' = TRUE
    /\ status' = "downloading"
    /\ downloadProgress' = 0
    /\ progressTimers' = progressTimers + 1
    /\ ev' = "handleDownload"
    /\ UNCHANGED <<variant, mounted, url, selectedFormat, isAnalyzing,
                   analysisTimers>>
    /\ UNCHANGED persistVars

\* the body of handleDownload
handleDownloadS ==
    /\ variant = "simple"
    /\ IF selectedFormat = ""
       THEN UNCHANGED <<isDownloading, status, downloadProgress, progressTimers>>
       ELSE /\ isDownloading' = TRUE
            /\ status' = "downloading"
            /\ downloadProgress' = 0
            /\ progressTimers' = progressTimers + 1
    /\ ev' = "handleDownload"
    /\ UNCHANGED <<variant, mounted, url, selectedFormat, isAnalyzing,
                   analysisTimers>>
    /\ UNCHANGED persistVars

\* the Start Download button is rendered in ready
downloadRenderedS == mounted /\ status = "ready"

\* a download request: a click on the Start Download button.  Its
\* disabled={!selectedFormat} repeats the first check of handleDownload, so
\* the click without a format is the call that returns at once.
DownloadButtonS ==
    /\ downloadRenderedS
    /\ handleDownloadS

\* one firing of the setInterval callback: the updater of setDownloadProgress.
\* On an unmounted component the state stays as it was at the unmount, and
\* whether setDownloadProgress still calls the updater (which is what clears
\* the interval) is up to the library: either outcome is allowed.
tickS(inc) ==
    /\ variant = "simple"
    /\ progressTimers > 0
    /\ IF ~mounted
       THEN /\ progressTimers' \in
                   IF downloadProgress >= Hundred
                   THEN {progressTimers, progressTimers - 1}
                   ELSE {progressTimers}
            /\ UNCHANGED <<isDownloading, status, downloadProgress>>
       ELSE IF downloadProgress >= Hundred
       THEN /\ progressTimers' = progressTimers - 1
            /\ isDownloading' = FALSE
            /\ status' = "complete"
            /\ downloadProgress' = Hundred
       ELSE /\ downloadProgress' = downloadProgress + inc
            /\ UNCHANGED <<progressTimers, isDownloading, status>>
    /\ ev' = "tick"
    /\ UNCHANGED <<variant, mounted, url, selectedFormat, isAnalyzing,
                   analysisTimers>>
    /\ UNCHANGED persistVars

\* resetForm as it would be without setSelectedFormat('')
resetFormS_KeepsFormat ==
    /\ variant = "simple"
    /\ url' = EmptyUrl
    /\ downloadProgress' = 0
    /\ status' = "idle"
    /\ ev' = "resetForm"
    /\ UNCHANGED <<variant, mounted, selectedFormat>>
    /\ UNCHANGED simpleVars
    /\ UNCHANGED persistVars

\* the body of resetForm
resetFormS ==
    /\ variant = "simple"
    /\ url' = EmptyUrl
    /\ selectedFormat' = ""
    /\ downloadProgress' = 0
    /\ status' = "idle"
    /\ ev' = "resetForm"
    /\ UNCHANGED <<variant, mounted>>
    /\ UNCHANGED simpleVars
    /\ UNCHANGED persistVars

\* the Download Another button is rendered in complete and error
ResetButtonS ==
    /\ mounted
    /\ status \in {"complete", "error"}
    /\ resetFormS

NextS ==
    \/ \E u \in Urls : setUrlS(u)
    \/ \E f \in PickIds : setSelectedFormatS(f)
    \/ AnalyzeButtonS
    \/ analysisTimeoutS
    \/ DownloadButtonS
    \/ \E inc \in Steps : tickS(inc)
    \/ ResetButtonS

----------------------------------------------------------------------------
(* The persistence-backed variant: the store and its listener *)

\* the record a merge writes into: setDoc with merge creates a missing record
Base(j) == IF docs[j].exists THEN docs[j] ELSE [NoDoc EXCEPT !.exists = TRUE]

\* a successful write of d to the record of job j changes a record a
\* listener is attached to, which raises a snapshot for it
Raised(j, d, ok) == ok /\ j \in listening /\ d # docs[j]

\* setDoc on the record of job j, leaving it as d when the write succeeds;
\* jobId, userId and isAuthReady are unchanged by the step
Write(j, d, ok) ==
    /\ ok \/ faults < MaxFaults
    /\ faults' = IF ok THEN faults ELSE faults + 1
    /\ Raised(j, d, ok) => Len(queue) < MaxQueue
    /\ docs' = IF ok THEN [docs EXCEPT ![j] = d] ELSE docs
    /\ queue' = IF Raised(j, d, ok) THEN Append(queue, Snap(j, d)) ELSE queue
    /\ UNCHANGED listening

\* the subscription effect as it would be without its cleanup function:
\* the listener of the previous job, and the snapshots raised for it, stay
Resubscribe_NoCleanup(j, u, r, ds) ==
    /\ listening' = listening \cup
                        (IF j # NoJob /\ u # Null /\ r THEN {j} ELSE {})
    /\ queue' = queue \o (IF j # NoJob /\ u # Null /\ r /\ ds[j].exists
                          THEN <<Snap(j, ds[j])>>
                          ELSE <<>>)

\* the subscription effect, re-run because jobId, userId or isAuthReady
\* changed to j, u, r: the cleanup removes the old listener, with the
\* snapshots raised for it, and a new one is attached when all three are
\* set; onSnapshot then raises the record as it stands in ds
Resubscribe(j, u, r, ds) ==
    /\ listening' = IF j # NoJob /\ u # Null /\ r THEN {j} ELSE {}
    /\ queue' = IF j # NoJob /\ u # Null /\ r /\ ds[j].exists
                THEN <<Snap(j, ds[j])>>
                ELSE <<>>

\* the onSnapshot callback as it would be without setErrorMessage
onSnapshotP_KeepsError ==
    /\ variant = "persist"
    /\ queue # <<>>
    /\ Head(queue).job \in listening
    /\ status' = Head(queue).status
    /\ downloadProgress' = Head(queue).progress
    /\ currentDownloadUrl' = Head(queue).downloadUrl
    /\ queue' = Tail(queue)
    /\ ev' = "onSnapshot"
    /\ UNCHANGED <<variant, mounted, url, selectedFormat, jobId, userId,
                   isAuthReady, authPc, docs, listening, anPc, dl, acks,
                   nextJob, faults, errorMessage>>
    /\ UNCHANGED simpleVars

\* the onSnapshot callback
onSnapshotP ==
    /\ variant = "persist"
    /\ queue # <<>>
    /\ Head(queue).job \in listening
    /\ status' = Head(queue).status
    /\ downloadProgress' = Head(queue).progress
    /\ currentDownloadUrl' = Head(queue).downloadUrl
    /\ errorMessage' = Head(queue).errorMessage
    /\ queue' = Tail(queue)
    /\ ev' = "onSnapshot"
    /\ UNCHANGED <<variant, mounted, url, selectedFormat, jobId, userId,
                   isAuthReady,
                   authPc, docs, listening, anPc, dl, acks, nextJob,
                   faults>>
    /\ UNCHANGED simpleVars

\* the error callback of onSnapshot; the listener is dead afterwards
onSnapshotErrorP ==
    /\ variant = "persist"
    /\ listening # {}
    /\ faults < MaxFaults
    /\ faults' = faults + 1
    /\ errorMessage' = ListenFailedMsg
    /\ listening' = {}
    /\ queue' = <<>>
    /\ ev' = "onSnapshotError"
    /\ UNCHANGED <<variant, mounted, url, selectedFormat, downloadProgress,
                   status,
                   jobId, currentDownloadUrl, userId, isAuthReady, authPc,
                   docs, anPc, dl, acks, nextJob>>
    /\ UNCHANGED simpleVars

----------------------------------------------------------------------------
(* The persistence-backed variant: authentication *)

\* authenticate(): the sign-in settles; on success the onAuthStateChanged
\* callback sets userId, on failure the catch sets the message; the finally
\* sets isAuthReady.  The provider notifies its observers and resolves the
\* sign-in promise in the same task, so no other callback runs in between.
authenticateP(ok) ==
    /\ variant = "persist"
    /\ authPc = "signingIn"
    /\ authPc' = "done"
    /\ userId' = Shown(IF ok THEN TheUser ELSE userId, userId)
    /\ errorMessage' = Shown(IF ok THEN errorMessage ELSE AuthFailedMsg,
                             errorMessage)
    /\ isAuthReady' = Shown(TRUE, isAuthReady)
    /\ Resubscribe(jobId, userId', isAuthReady', docs)
    /\ ev' = "authenticate"
    /\ UNCHANGED <<variant, mounted, url, selectedFormat, downloadProgress,
                   status,
                   jobId, currentDownloadUrl, docs, anPc, dl, acks, nextJob,
                   faults>>
    /\ UNCHANGED simpleVars

----------------------------------------------------------------------------
(* The persistence-backed variant: the form *)

\* onChange of the URL input; disabled while analyzing or downloading
setUrlP(u) ==
    /\ variant = "persist"
    /\ mounted
    /\ status \notin {"analyzing", "downloading"}
    /\ url' = u
    /\ IF status = "error" /\ isValidYouTubeUrlP(u)
       THEN status' = "idle" /\ errorMessage' = Null
       ELSE UNCHANGED <<status, errorMessage>>
    /\ ev' = "setUrl"
    /\ UNCHANGED <<variant, mounted, selectedFormat, downloadProgress, jobId,
                   currentDownloadUrl, userId, isAuthReady, authPc,
                   docs, listening, queue, anPc, dl, acks, nextJob,
                   faults>>
    /\ UNCHANGED simpleVars

\* the format radio inputs: rendered in ready, downloading and complete,
\* disabled while downloading
setSelectedFormatP(f) ==
    /\ variant = "persist"
    /\ mounted
    /\ status \in {"ready", "complete"}
    /\ selectedFormat' = f
    /\ ev' = "setSelectedFormat"
    /\ UNCHANGED <<variant, mounted, url, downloadProgress, status>>
    /\ UNCHANGED persistVars
    /\ UNCHANGED simpleVars

\* the record handleAnalyze creates
NewJobDoc == [exists |-> TRUE, url |-> url, selectedFormatId |-> "",
              status |-> "analyzing", progress |-> 0, downloadUrl |-> NoUrl,
              errorMessage |-> Null, userId |-> userId]

\* the body of handleAnalyze up to its await
handleAnalyzeP ==
    /\ variant = "persist"
    /\ IF ~isValidYouTubeUrlP(url)
       THEN /\ status' = "error"
            /\ errorMessage' = InvalidUrlMsg
            /\ UNCHANGED <<selectedFormat, jobId, docs, listening, queue,
                           anPc, acks, nextJob, faults>>
       ELSE IF userId = Null
       THEN /\ errorMessage' = NotAuthMsg
            /\ UNCHANGED <<status, selectedFormat, jobId, docs, listening,
                           queue, anPc, acks, nextJob, faults>>
       ELSE /\ nextJob <= MaxJobs
            /\ status' = "analyzing"
            /\ errorMessage' = Null
            /\ selectedFormat' = ""
            /\ jobId' = nextJob
            /\ nextJob' = nextJob + 1
            /\ \E ok \in BOOLEAN :
                /\ ok \/ faults < MaxFaults
                /\ faults' = IF ok THEN faults ELSE faults + 1
                /\ docs' = IF ok THEN [docs EXCEPT ![nextJob] = NewJobDoc]
                                 ELSE docs
                /\ anPc' = [anPc EXCEPT ![nextJob] =
                                IF ok THEN "created" ELSE "createFailed"]
            /\ acks' = Append(acks, [kind |-> "analyze", id |-> nextJob])
            /\ Resubscribe(nextJob, userId, isAuthReady, docs')
    /\ ev' = "handleAnalyze"
    /\ UNCHANGED <<variant, mounted, url, downloadProgress,
                   currentDownloadUrl, userId,
                   isAuthReady, authPc, dl>>
    /\ UNCHANGED simpleVars

\* disabled={!url || status === 'analyzing' || status === 'downloading' || !userId}
analyzeDisabledP ==
    ~mounted \/ url = EmptyUrl \/ status = "analyzing"
    \/ status = "downloading" \/ userId = Null

\* a click on the Analyze button
AnalyzeButtonP ==
    /\ ~analyzeDisabledP
    /\ handleAnalyzeP

\* handleAnalyze after await setDoc: the setTimeout, or the catch
analyzeAwaitedP(j) ==
    /\ variant = "persist"
    /\ acks # <<>>
    /\ Head(acks) = [kind |-> "analyze", id |-> j]
    /\ acks' = Tail(acks)
    /\ IF anPc[j] = "created"
       THEN /\ anPc' = [anPc EXCEPT ![j] = "timer"]
            /\ UNCHANGED <<status, errorMessage>>
       ELSE /\ anPc' = [anPc EXCEPT ![j] = "done"]
            /\ status' = Shown("error", status)
            /\ errorMessage' = Shown(AnalysisFailedMsg, errorMessage)
    /\ ev' = "analyzeAwaited"
    /\ UNCHANGED <<variant, mounted, url, selectedFormat, downloadProgress,
                   jobId,
                   currentDownloadUrl, userId, isAuthReady, authPc,
                   docs, listening, queue, dl, nextJob, faults>>
    /\ UNCHANGED simpleVars

\* the setTimeout callback of job j up to its await:
\* setDoc(jobDocRef, {status: 'ready', progress: 0, errorMessage: null}, merge)
analysisTimeoutP(j) ==
    /\ variant = "persist"
    /\ anPc[j] = "timer"
    /\ \E ok \in BOOLEAN :
        /\ Write(j, [Base(j) EXCEPT !.status = "ready", !.progress = 0,
                                    !.errorMessage = Null], ok)
        /\ anPc' = [anPc EXCEPT ![j] =
                        IF ok THEN "readyWritten" ELSE "readyFailed"]
    /\ acks' = Append(acks, [kind |-> "timeout", id |-> j])
    /\ ev' = "analysisTimeout"
    /\ UNCHANGED <<variant, mounted, url, selectedFormat, downloadProgress,
                   status,
                   jobId, currentDownloadUrl, errorMessage, userId,
                   isAuthReady, authPc, dl, nextJob>>
    /\ UNCHANGED simpleVars

\* the setTimeout callback of job j after its await: setStatus('ready');
\* a rejected write leaves the callback with an unhandled rejection
analysisReadyP(j) ==
    /\ variant = "persist"
    /\ acks # <<>>
    /\ Head(acks) = [kind |-> "timeout", id |-> j]
    /\ acks' = Tail(acks)
    /\ status' = IF anPc[j] = "readyWritten" THEN Shown("ready", status)
                                             ELSE status
    /\ anPc' = [anPc EXCEPT ![j] = "done"]
    /\ ev' = "analysisReady"
    /\ UNCHANGED <<variant, mounted, url, selectedFormat, downloadProgress,
                   jobId,
                   currentDownloadUrl, errorMessage, userId, isAuthReady,
                   authPc, docs, listening, queue, dl, nextJob, faults>>
    /\ UNCHANGED simpleVars

FreeSlots == {s \in Slots : dl[s].pc = "free"}

\* the body of handleDownload up to its await
handleDownloadP ==
    /\ variant = "persist"
    /\ IF selectedFormat = "" \/ jobId = NoJob \/ userId = Null
       THEN UNCHANGED <<status, errorMessage, downloadProgress,
                        currentDownloadUrl, docs, listening, queue, dl, acks,
                        faults>>
       ELSE /\ FreeSlots # {}
            /\ status' = "downloading"
            /\ errorMessage' = Null
            /\ downloadProgress' = 0
            /\ currentDownloadUrl' = NoUrl
            /\ LET s == CHOOSE x \in FreeSlots : \A y \in FreeSlots : x <= y
               IN  \E ok \in BOOLEAN :
                    /\ Write(jobId,
                             [Base(jobId) EXCEPT
                                 !.selectedFormatId = selectedFormat,
                                 !.status = "downloading",
                                 !.progress = 0,
                                 !.errorMessage = Null], ok)
                    /\ dl' = [dl EXCEPT ![s] =
                                [pc |-> IF ok THEN "started" ELSE "startFailed",
                                 job |-> jobId, fmt |-> selectedFormat,
                                 cur |-> 0]]
                    /\ acks' = Append(acks, [kind |-> "download", id |-> s])
    /\ ev' = "handleDownload"
    /\ UNCHANGED <<variant, mounted, url, selectedFormat, jobId, userId,
                   isAuthReady,
                   authPc, anPc, nextJob>>
    /\ UNCHANGED simpleVars

\* the Start Download button is rendered in ready
downloadRenderedP == mounted /\ status = "ready"

\* a download request: a click on the Start Download button.  Its
\* disabled={!selectedFormat || status === 'downloading'} repeats the first
\* check of handleDownload (the button is not rendered while downloading),
\* so the click without a format is the call that returns at once.
DownloadButtonP ==
    /\ downloadRenderedP
    /\ handleDownloadP

\* handleDownload after await setDoc: let currentProgress = 0 and the
\* setInterval, or the catch with its write of the failure
downloadAwaitedP(s) ==
    /\ variant = "persist"
    /\ acks # <<>>
    /\ Head(acks) = [kind |-> "download", id |-> s]
    /\ acks' = Tail(acks)
    /\ IF dl[s].pc = "started"
       THEN /\ dl' = [dl EXCEPT ![s].pc = "ticking", ![s].cur = 0]
            /\ UNCHANGED <<status, errorMessage, docs, listening, queue,
                           faults>>
       ELSE /\ dl' = [dl EXCEPT ![s] = OverTask]
            /\ status' = Shown("error", status)
            /\ errorMessage' = Shown(DownloadFailedMsg, errorMessage)
            /\ \E ok \in BOOLEAN :
                Write(dl[s].job,
                      [Base(dl[s].job) EXCEPT
                          !.status = "error",
                          !.errorMessage = DownloadFailedDocMsg], ok)
    /\ ev' = "downloadAwaited"
    /\ UNCHANGED <<variant, mounted, url, selectedFormat, downloadProgress,
                   jobId,
                   currentDownloadUrl, userId, isAuthReady, authPc,
                   anPc, nextJob>>
    /\ UNCHANGED simpleVars

\* one firing of the setInterval callback of slot s
tickP(s, inc) ==
    /\ variant = "persist"
    /\ dl[s].pc = "ticking"
    /\ LET currentProgress == dl[s].cur + inc
           j == dl[s].job
       IN  IF currentProgress >= Hundred
           THEN /\ dl' = [dl EXCEPT ![s] = OverTask]
                /\ \E ok \in BOOLEAN :
                    Write(j, [Base(j) EXCEPT
                                 !.status = "complete",
                                 !.progress = Hundred,
                                 !.downloadUrl = mockDownloadUrl(j, dl[s].fmt),
                                 !.errorMessage = Null], ok)
           ELSE /\ dl' = [dl EXCEPT ![s].cur = currentProgress]
                /\ \E ok \in BOOLEAN :
                    Write(j, [Base(j) EXCEPT
                                 !.progress = Round(currentProgress)], ok)
    /\ ev' = "tick"
    /\ UNCHANGED <<variant, mounted, url, selectedFormat, downloadProgress,
                   status,
                   jobId, currentDownloadUrl, errorMessage, userId,
                   isAuthReady, authPc, anPc, acks, nextJob>>
    /\ UNCHANGED simpleVars

\* the body of resetForm
resetFormP ==
    /\ variant = "persist"
    /\ url' = EmptyUrl
    /\ selectedFormat' = ""
    /\ jobId' = NoJob
    /\ downloadProgress' = 0
    /\ status' = "idle"
    /\ currentDownloadUrl' = NoUrl
    /\ errorMessage' = Null
    /\ Resubscribe(NoJob, userId, isAuthReady, docs)
    /\ ev' = "resetForm"
    /\ UNCHANGED <<variant, mounted, userId, isAuthReady, authPc, docs, anPc,
                   dl, acks, nextJob, faults>>
    /\ UNCHANGED simpleVars

\* the Download Another button is rendered in complete and error
ResetButtonP ==
    /\ mounted
    /\ status \in {"complete", "error"}
    /\ resetFormP

NextP ==
    \/ \E ok \in BOOLEAN : authenticateP(ok)
    \/ \E u \in Urls : setUrlP(u)
    \/ \E f \in PickIds : setSelectedFormatP(f)
    \/ AnalyzeButtonP
    \/ \E j \in JobIds : analyzeAwaitedP(j)
    \/ \E j \in JobIds : analysisTimeoutP(j)
    \/ \E j \in JobIds : analysisReadyP(j)
    \/ DownloadButtonP
    \/ \E s \in Slots : downloadAwaitedP(s)
    \/ \E s \in Slots : \E inc \in Steps : tickP(s, inc)
    \/ onSnapshotP
    \/ onSnapshotErrorP
    \/ ResetButtonP

Next == NextS \/ NextP

Spec == Init /\ [][Next]_vars

\* the simple variant alone
InitS == Init /\ variant = "simple"

SpecS == InitS /\ [][NextS]_vars

\* the persistence-backed variant alone
InitP == Init /\ variant = "persist"

SpecP == InitP /\ [][NextP]_vars

\* The event loop runs every callback that is due: a pending timeout fires,
\* a running interval keeps firing (and draws a positive increment again
\* and again), an awaited write settles, a raised snapshot is delivered and
\* the sign-in settles.
FairnessS ==
    /\ WF_vars(analysisTimeoutS)
    /\ WF_vars(\E inc \in Steps \ {0} : tickS(inc))

FairnessP ==
    /\ WF_vars(\E ok \in BOOLEAN : authenticateP(ok))
    /\ WF_vars(onSnapshotP)
    /\ \A j \in JobIds :
        /\ WF_vars(analyzeAwaitedP(j))
        /\ WF_vars(analysisTimeoutP(j))
        /\ WF_vars(analysisReadyP(j))
    /\ \A s \in Slots :
        /\ WF_vars(downloadAwaitedP(s))
        /\ WF_vars(\E inc \in Steps \ {0} : tickP(s, inc))

FairSpec == Spec /\ FairnessS /\ FairnessP

FairSpecS == SpecS /\ FairnessS

FairSpecP == SpecP /\ FairnessP

----------------------------------------------------------------------------
(* Events of the environment: teardown and sign-out *)

\* the component is unmounted: the cleanup of the subscription effect
\* removes the listener; no other cleanup exists, so pending timeouts,
\* running intervals and awaited writes stay as they are
unmount ==
    /\ mounted
    /\ mounted' = FALSE
    /\ listening' = {}
    /\ queue' = <<>>
    /\ ev' = "unmount"
    /\ UNCHANGED <<variant, url, selectedFormat, downloadProgress, status,
                   jobId, currentDownloadUrl, errorMessage, userId,
                   isAuthReady, authPc, docs, anPc, dl, acks, nextJob,
                   faults>>
    /\ UNCHANGED simpleVars

\* the onAuthStateChanged callback with no user, after a sign-in: the
\* provider ended the session; setUserId(null) re-runs the subscription effect
signedOutP ==
    /\ variant = "persist"
    /\ mounted
    /\ authPc = "done"
    /\ userId # Null
    /\ userId' = Null
    /\ authPc' = "signedOut"
    /\ Resubscribe(jobId, Null, isAuthReady, docs)
    /\ ev' = "signedOut"
    /\ UNCHANGED <<variant, mounted, url, selectedFormat, downloadProgress,
                   status, jobId, currentDownloadUrl, errorMessage,
                   isAuthReady, docs, anPc, dl, acks, nextJob, faults>>
    /\ UNCHANGED simpleVars

\* the component with teardown
NextT == Next \/ unmount

SpecT == Init /\ [][NextT]_vars

\* the persistence-backed variant with a provider that may end the session
NextA == NextP \/ signedOutP

SpecA == InitP /\ [][NextA]_vars

----------------------------------------------------------------------------
(* Properties *)

\* the URL held by the form does not pass the URL-shape check of the variant
UrlRejected ==
    IF variant = "simple" THEN ~isValidYouTubeUrlS(url)
                          ELSE ~isValidYouTubeUrlP(url)

\* the step is the callback that ends the simulated analysis delay
AnalysisCallbackStep ==
    \/ variant = "simple" /\ ev' = "analysisTimeout"
    \/ variant = "persist" /\ ev' = "analysisReady"

\* C1: an analyze request whose URL does not pass the URL-shape check sets
\* status to error (in the persistence-backed variant with the fixed
\* invalid-URL message) and creates no job: no job identifier is assigned,
\* no record is written, no write is awaited and no analysis timer is started.
C1_InvalidUrlCreatesNoJob ==
    [][(ev' = "handleAnalyze" /\ UrlRejected)
          => /\ status' = "error"
             /\ variant = "persist" => errorMessage' = InvalidUrlMsg
             /\ jobId' = jobId
             /\ nextJob' = nextJob
             /\ docs' = docs
             /\ acks' = acks
             /\ anPc' = anPc
             /\ analysisTimers' = analysisTimers]_vars

\* C1 witness: the persistence-backed variant has just handled an analyze
\* request for the string "not a url" while a job was being tracked.
C1_Witness ==
    /\ variant = "persist"
    /\ ev = "handleAnalyze"
    /\ url = NotAUrl
    /\ status = "error"
    /\ errorMessage = InvalidUrlMsg
    /\ jobId # NoJob

\* C2 (as claimed): an accepted analyze request with a valid-shaped URL sets
\* status to analyzing, and the fixed-delay callback then sets it to ready
\* with progress 0 and no error shown.
C2_AnalyzeThenReady ==
    [][/\ (ev' = "handleAnalyze" /\ ~UrlRejected) => status' = "analyzing"
       /\ AnalysisCallbackStep
             => /\ status' = "ready"
                /\ downloadProgress' = 0
                /\ errorMessage' = Null]_vars

\* C3 (as claimed): in every reachable state of both variants the displayed
\* progress lies in [0,100].
C3_ProgressInRange ==
    downloadProgress >= 0 /\ downloadProgress <= Hundred

\* C4 (as claimed): every step that leaves status at downloading leaves the
\* displayed progress at least as large as it was.
C4_ProgressMonotone ==
    [][(status = "downloading" /\ status' = "downloading")
          => downloadProgress' >= downloadProgress]_vars

\* C5 (as claimed): whenever status is complete the displayed progress is
\* exactly 100, and a step that leaves status at complete leaves it at 100.
C5_CompleteIsHundred ==
    [][(status' = "complete") => downloadProgress' = Hundred]_vars

\* C6 (as claimed): once a download has been started with a format
\* selected, status eventually becomes complete with progress 100 and a
\* non-empty result locator, unless a fault of the store occurs.
C6_DownloadCompletes ==
    (ev = "handleDownload" /\ status = "downloading")
        ~> \/ /\ status = "complete"
               /\ downloadProgress = Hundred
               /\ currentDownloadUrl # NoUrl
           \/ faults > 0

\* the fields a reset clears, cleared
Cleared ==
    /\ status = "idle"
    /\ downloadProgress = 0
    /\ selectedFormat = ""
    /\ errorMessage = Null
    /\ currentDownloadUrl = NoUrl
    /\ jobId = NoJob

\* C7: a reset issued from complete or error yields status idle, progress 0,
\* an empty format selection, no error message, no result locator and no
\* tracked job identifier.
C7_ResetClears ==
    [][(ev' = "resetForm" /\ status \in {"complete", "error"}) => Cleared']_vars

\* C7 witness: a reset has just cleared a completed download of the
\* simple variant.
C7_Witness ==
    /\ variant = "simple"
    /\ ev = "resetForm"
    /\ Cleared
    /\ url = EmptyUrl

C9_DownloadWithoutFormatIsNoOp ==
    [][(ev' = "handleDownload" /\ selectedFormat = "")
          => UNCHANGED <<status, downloadProgress, currentDownloadUrl,
                         errorMessage, isDownloading, progressTimers, dl,
                         acks, docs, queue, faults>>]_vars

\* C9 witness: a download request has just been made in ready with no
\* format selected.
C9_Witness ==
    /\ ev = "handleDownload"
    /\ selectedFormat = ""
    /\ status = "ready"

\* C10 (as claimed): in the persistence-backed variant an error message is
\* displayed only when status is error.
C10_ErrorMessageOnlyInError ==
    (variant = "persist" /\ errorMessage # Null) => status = "error"

\* C11 (as claimed): in the persistence-backed variant a result locator is
\* displayed only when status is complete.
C11_LocatorOnlyInComplete ==
    (variant = "persist" /\ currentDownloadUrl # NoUrl) => status = "complete"

\* C12: the held format selection is empty or an identifier of the catalog;
\* while status is downloading it is an identifier of the catalog; and a
\* step that selects an option holds that option afterwards and changes
\* nothing else of the form, the timers, the job or the store.
C12_FormatFromCatalog ==
    /\ [](selectedFormat \in CatalogIds \cup {""})
    /\ [](status = "downloading" => selectedFormat \in CatalogIds)
    /\ [][ev' = "setSelectedFormat"
             => /\ selectedFormat' \in CatalogIds
                /\ UNCHANGED <<url, downloadProgress, status, isAnalyzing,
                               isDownloading, analysisTimers, progressTimers,
                               jobId, currentDownloadUrl, errorMessage,
                               userId, docs, listening, queue, anPc, dl,
                               acks>>]_vars

\* C12 witness: while a download of the simple variant is running at a
\* progress above 0 the user has just replaced the held format by another.
C12_Witness ==
    /\ variant = "simple"
    /\ ev = "setSelectedFormat"
    /\ status = "downloading"
    /\ downloadProgress > 0
    /\ selectedFormat = downloadOptions[2]

\* C13 (as claimed): in the persistence-backed variant an analyze or download
\* request made while userId is null writes no record, assigns no job
\* identifier, starts no timer or awaited write and leaves status unchanged;
\* and every record carries, from the step that creates it on, the
\* identifier of the user who was signed in when it was created.
C13_JobOnlyWhenAuthenticated ==
    [][/\ (ev' \in {"handleAnalyze", "handleDownload"} /\ userId = Null)
             => UNCHANGED <<status, jobId, nextJob, docs, queue, anPc, dl,
                            acks, faults>>
       /\ \A j \in JobIds :
             /\ (~docs[j].exists /\ docs'[j].exists)
                   => (userId # Null /\ docs'[j].userId = userId)
             /\ docs[j].exists => docs'[j].userId = docs[j].userId]_vars

\* C14 (as claimed): every rejected write of the store is caught: the step
\* that resumes after a rejected creation write, a rejected first write of a
\* download or a rejected write of the ready status sets status to error
\* and shows a message, and so does a tick whose write is rejected (a tick
\* has no code after its write).
C14_FailuresBecomeErrors ==
    [][/\ (ev' = "analyzeAwaited" /\ anPc[Head(acks).id] = "createFailed")
             => (status' = "error" /\ errorMessage' = AnalysisFailedMsg)
       /\ (ev' = "downloadAwaited" /\ dl[Head(acks).id].pc = "startFailed")
             => (status' = "error" /\ errorMessage' = DownloadFailedMsg)
       /\ (ev' = "analysisReady" /\ anPc[Head(acks).id] = "readyFailed")
             => (status' = "error" /\ errorMessage' # Null)
       /\ (ev' = "tick" /\ faults' > faults)
             => (status' = "error" /\ errorMessage' # Null)]_vars

\* C15 (as claimed): after the component is torn down no analysis callback
\* and no progress tick runs, and nothing is written to the store.
C15_TeardownCancelsTimers ==
    [][~mounted => /\ ev' \notin {"analysisTimeout", "analysisReady", "tick"}
                   /\ docs' = docs]_vars

\* C16: in the persistence-backed variant at most one listener is live, it
\* is the listener of the tracked job, and none is live after the unmount;
\* every snapshot waiting to be delivered is of the tracked job, so the
\* notification a step processes is of the job tracked before and after it.
C16_OneSubscriptionForTrackedJob ==
    /\ [](Cardinality(listening) <= 1)
    /\ [](listening \subseteq {jobId} \ {NoJob})
    /\ [](~mounted => listening = {})
    /\ [](\A i \in 1..Len(queue) : queue[i].job = jobId)
    /\ [][ev' = "onSnapshot"
             => (Head(queue).job = jobId /\ jobId' = jobId)]_vars

\* C16 witness: a tick has just written progress to the record of job 1
\* while the tracked job is job 2: the listener is on job 2 and no
\* notification of job 1 is waiting.
C16_Witness ==
    /\ ev = "tick"
    /\ jobId = 2
    /\ listening = {2}
    /\ docs[1].status = "downloading"
    /\ docs[1].progress > 0
    /\ \E s \in Slots : dl[s].pc = "ticking" /\ dl[s].job = 1

\* C17 (as claimed): while status is analyzing or downloading no analyze,
\* download or reset handler runs, and status leaves analyzing only for
\* ready or error and leaves downloading only for complete or error.
C17_NoCancellationMidRun ==
    [][/\ status \in {"analyzing", "downloading"}
             => ev' \notin {"handleAnalyze", "handleDownload", "resetForm"}
       /\ (status = "analyzing" /\ status' # status)
             => status' \in {"ready", "error"}
       /\ (status = "downloading" /\ status' # status)
             => status' \in {"complete", "error"}]_vars

\* C18 (as claimed, an error counted as an end of the analysis as well):
\* every state with status analyzing is followed by a state with status
\* ready or error.
C18_AnalyzingEnds ==
    (status = "analyzing") ~> (status \in {"ready", "error"})

\* C19: the handleDownload step that enters downloading leaves progress 0,
\* no result locator and no error message; in the persistence-backed
\* variant its write, unless the store rejects it, leaves the record of the
\* tracked job with status downloading, progress 0, no error message and
\* the held format as its selected format.
C19_DownloadEntryResets ==
    [][(ev' = "handleDownload" /\ status' = "downloading")
          => /\ downloadProgress' = 0
             /\ currentDownloadUrl' = NoUrl
             /\ errorMessage' = Null
             /\ variant = "persist"
                   => \/ faults' = faults + 1 /\ docs' = docs
                      \/ /\ faults' = faults
                         /\ docs'[jobId].exists
                         /\ docs'[jobId].status = "downloading"
                         /\ docs'[jobId].progress = 0
                         /\ docs'[jobId].errorMessage = Null
                         /\ docs'[jobId].selectedFormatId = selectedFormat
                         /\ \A j \in JobIds \ {jobId} : docs'[j] = docs[j]]_vars

\* C19 witness: after a first job has completed, a download of a second
\* job has just been started and its record written.
C19_Witness ==
    /\ variant = "persist"
    /\ ev = "handleDownload"
    /\ status = "downloading"
    /\ jobId = 2
    /\ docs[1].status = "complete"
    /\ docs[2].status = "downloading"
    /\ docs[2].selectedFormatId = selectedFormat
    /\ downloadProgress = 0
    /\ currentDownloadUrl = NoUrl

----------------------------------------------------------------------------
(* The URL-shape check on a family of strings *)

\* what stands before the protocol, the protocol, the www. prefix, the host
\* name and what follows it, of the strings typed or pasted into the URL
\* input (a text input holds no line feed and no carriage return)
Leads == {<<>>, <<" ">>, Www}

Protocols == {<<>>, Http, Https, <<"h", "t", "t", "p", ":", "/">>}

Wwws == {<<>>, Www}

HostNames == {YoutubeCom, YoutuBe,
              <<"y", "o", "u", "t", "u", "b", "e", "x", "c", "o", "m">>,
              <<"e", "x", ".", "c", "o", "m">>}

Rests == {<<>>, <<"/">>, <<"/", "a">>, <<"a">>, <<"/", LS>>,
          <<"/", PS, "a">>, <<"/", "a", LS>>}

UrlInputs ==
    {l \o p \o w \o h \o r :
        l \in Leads, p \in Protocols, w \in Wwws, h \in HostNames, r \in Rests}
    \cup {NotAUrl, YoutuBeUrl}

\* the form alone: the URL input, the sign-in and the Analyze button
NextU ==
    \/ \E u \in UrlInputs : setUrlS(u)
    \/ \E u \in UrlInputs : setUrlP(u)
    \/ \E ok \in BOOLEAN : authenticateP(ok)
    \/ AnalyzeButtonS
    \/ AnalyzeButtonP

SpecU == Init /\ [][NextU]_vars

\* s without the prefix p, if it has it
Strip(s, p) == IF HasAt(s, 1, p) THEN SubSeq(s, Len(p) + 1, Len(s)) ELSE s

\* s after stripping a leading http:// or https:// and then a www. prefix
Stripped(s) ==
    Strip(IF HasAt(s, 1, Https) THEN Strip(s, Https) ELSE Strip(s, Http), Www)

\* s begins with one of the two host names followed by / and one further
\* character, which is none of the set no
BeginsWithHost(s, no) ==
    \E h \in {YoutubeCom, YoutuBe} :
        /\ HasAt(s, 1, h)
        /\ Len(s) >= Len(h) + 2
        /\ s[Len(h) + 1] = "/"
        /\ s[Len(h) + 2] \notin no

NoChar == {}

LineFeeds == {"\n", "\r", LS, PS}

YoutubeComSlash == YoutubeCom \o <<"/">>

\* the step applies the URL-shape check of its variant: handleAnalyze to
\* the held URL, the onChange of the URL input of the persistence-backed
\* variant to the typed one while status is error; either way the string
\* checked is the URL held after the step
ChecksUrl ==
    \/ ev' = "handleAnalyze"
    \/ ev' = "setUrl" /\ variant = "persist" /\ status = "error"

\* the step that applies the check accepts the string: handleAnalyze goes on
\* to analyzing, the onChange clears the error
Accepted ==
    \/ ev' = "handleAnalyze" /\ status' = "analyzing"
    \/ ev' = "setUrl" /\ status' = "idle"

\* C21 (as claimed): a step that applies the URL-shape check accepts the
\* string exactly when, after stripping a leading http:// or https:// and
\* then a www. prefix, it begins with youtube.com or youtu.be followed by /
\* and at least one further character; the two variants accept the same
\* strings.
C21_UrlShape ==
    /\ [](isValidYouTubeUrlS(url) <=> isValidYouTubeUrlP(url))
    /\ [][ChecksUrl
             => (Accepted <=> BeginsWithHost(Stripped(url'), NoChar))]_vars

\* C21 (amended): as claimed, with the further character being one that is
\* not a line terminator; "not a url" and "youtube.com/" are rejected and
\* "https://youtu.be/abc123" is accepted by both variants.
C21_UrlShapeNoLineTerminator ==
    /\ [](isValidYouTubeUrlS(url) <=> isValidYouTubeUrlP(url))
    /\ [](/\ ~isValidYouTubeUrlS(NotAUrl) /\ ~isValidYouTubeUrlP(NotAUrl)
          /\ ~isValidYouTubeUrlS(YoutubeComSlash)
          /\ ~isValidYouTubeUrlP(YoutubeComSlash)
          /\ isValidYouTubeUrlS(YoutuBeUrl) /\ isValidYouTubeUrlP(YoutuBeUrl))
    /\ [][ChecksUrl
             => (Accepted <=> BeginsWithHost(Stripped(url'), LineFeeds))]_vars

\* C21 witness: the persistence-backed variant has just rejected
\* "https://www.youtu.be/" followed by a paragraph separator and "a".
C21_Witness ==
    /\ variant = "persist"
    /\ ev = "handleAnalyze"
    /\ status = "error"
    /\ errorMessage = InvalidUrlMsg
    /\ url = Https \o Www \o YoutuBe \o <<"/", PS, "a">>

\* C22 (as claimed): in the persistence-backed variant a result locator is
\* written only by the tick that completes a download, to the record of the
\* job of that download, and it combines the identifier of that job with the
\* format identifier held in the selectedFormatId of that same record.
C22_LocatorOfRecord ==
    [][\A j \in JobIds :
          docs'[j].downloadUrl # docs[j].downloadUrl
             => /\ ev' = "tick"
                /\ docs'[j].status = "complete"
                /\ docs'[j].downloadUrl =
                       mockDownloadUrl(j, docs'[j].selectedFormatId)]_vars

\* C23 (as claimed): at most one progress timer is ticking and at most one
\* analysis callback is pending in every reachable state; a download is
\* never started while a progress timer is ticking and an analysis is never
\* started while an analysis callback is pending.
C23_AtMostOneTimer ==
    /\ [](progressTimers <= 1 /\ analysisTimers <= 1)
    /\ [](Cardinality({s \in Slots : dl[s].pc = "ticking"}) <= 1)
    /\ [](Cardinality({j \in JobIds : anPc[j] = "timer"}) <= 1)
    /\ [][(ev' = "handleDownload" /\ status' = "downloading")
             => (progressTimers = 0 /\ \A s \in Slots : dl[s].pc # "ticking")]_vars
    /\ [][(ev' = "handleAnalyze" /\ status' = "analyzing")
             => (analysisTimers = 0 /\ \A j \in JobIds : anPc[j] # "timer")]_vars

\* C24 (as claimed): from the idle state with every job field cleared that
\* a reset leaves (before the first analyze request nothing but the sign-in
\* changes these fields), the only step that changes status, progress,
\* format, error message, result locator or tracked job is an analyze
\* request: no analysis callback, tick, write completion or change
\* notification of an abandoned job does.
C24_QuietAfterReset ==
    [][(Cleared /\ (variant = "persist" => authPc # "signingIn"))
          => (Cleared' \/ ev' = "handleAnalyze")]_vars

\* C25 (as claimed): in the persistence-backed variant every record with
\* status complete has progress 100 and a result locator, a record has a
\* result locator only with status complete, and a record with status
\* complete is changed by no later write.
C25_RecordInvariants ==
    /\ [](\A j \in JobIds :
             docs[j].status = "complete"
                => (docs[j].progress = Hundred /\ docs[j].downloadUrl # NoUrl))
    /\ [](\A j \in JobIds :
             docs[j].downloadUrl # NoUrl => docs[j].status = "complete")
    /\ [][\A j \in JobIds :
             docs[j].status = "complete" => docs'[j] = docs[j]]_vars

\* C26: in the simple variant isAnalyzing is true exactly when status is
\* analyzing, and isDownloading is true exactly when status is downloading,
\* in every reachable state.
C26_FlagsMirrorStatus ==
    variant = "simple"
        => /\ isAnalyzing <=> status = "analyzing"
           /\ isDownloading <=> status = "downloading"

\* C26 witness: the tick that found progress at 100 has just cleared the
\* interval, set isDownloading to false and status to complete.
C26_Witness ==
    /\ variant = "simple"
    /\ ev = "tick"
    /\ status = "complete"
    /\ ~isDownloading
    /\ ~isAnalyzing
    /\ progressTimers = 0

====
